---- MODULE Spec2Model ----
(***************************************************************************)
(* State-machine model of src/server.js: an Express server that keeps a    *)
(* store profile (data/restaurant.json) and a review list                  *)
(* (data/comments.json) and stores uploaded images under uploads/.         *)
(*                                                                         *)
(* Conventions of the model                                                *)
(*  - A path string is the sequence of its "/"-separated segments:         *)
(*    "uploads/icons/a.png" is <<"uploads","icons","a.png">>, the empty    *)
(*    string is <<>>, and a leading "/" gives a first segment "".          *)
(*  - A string that the code parses (an index, a rating, a time string) is *)
(*    the sequence of its characters. The CJK unit characters of the time  *)
(*    strings are written by their pinyin: "zhou" (week), "yue" (month),   *)
(*    "nian" (year), "qian" (ago).                                         *)
(*  - A JavaScript number that may be NaN is [nan, val].                   *)
(*  - Every Express route handler of the file is synchronous (readFileSync,*)
(*    writeFileSync, unlinkSync, no await), so one handler is one action.  *)
(***************************************************************************)
EXTENDS Integers, Sequences, FiniteSets, TLC

VARIABLES
    files,       \* absolute paths of the regular files that exist on disk
    comments,    \* parsed content of data/comments.json (when it exists)
    restaurant,  \* parsed content of data/restaurant.json (when it exists)
    req,         \* the request handled last
    res,         \* the response sent to it
    putList,     \* the array of the last PUT /api/comments answered 200
    putFresh,    \* TRUE from that PUT until the next write to the review list
    inflight     \* per client: a POST /api/comments received, not yet handled

vars == <<files, comments, restaurant, req, res, putList, putFresh, inflight>>

(***************************************************************************)
(* Bounds of the model.                                                    *)
(***************************************************************************)
MaxLen == 3
MaxPut == 2
MaxUploads == 2
MaxParts == 2
NumClients == 2

(***************************************************************************)
(* JavaScript numbers and parseInt.                                        *)
(***************************************************************************)
NaN == [nan |-> TRUE, val |-> 0]

Num(n) == [nan |-> FALSE, val |-> n]

Digits == {"0", "1", "2", "3", "4", "5", "6", "7", "8", "9"}

DigitVal(c) ==
    CASE c = "0" -> 0 [] c = "1" -> 1 [] c = "2" -> 2 [] c = "3" -> 3
      [] c = "4" -> 4 [] c = "5" -> 5 [] c = "6" -> 6 [] c = "7" -> 7
      [] c = "8" -> 8 [] c = "9" -> 9

\* The value of the longest prefix of digits of s, given the value acc of the
\* digits read so far.
RECURSIVE DigitPrefix(_, _)
DigitPrefix(s, acc) ==
    IF s = <<>> \/ Head(s) \notin Digits THEN acc
    ELSE DigitPrefix(Tail(s), 10 * acc + DigitVal(Head(s)))

RECURSIVE SkipSpaces(_)
SkipSpaces(s) ==
    IF s # <<>> /\ Head(s) = " " THEN SkipSpaces(Tail(s)) ELSE s

HexDigits ==
    Digits \cup {"a", "b", "c", "d", "e", "f", "A", "B", "C", "D", "E", "F"}

HexVal(c) ==
    CASE c \in Digits -> DigitVal(c)
      [] c \in {"a", "A"} -> 10 [] c \in {"b", "B"} -> 11
      [] c \in {"c", "C"} -> 12 [] c \in {"d", "D"} -> 13
      [] c \in {"e", "E"} -> 14 [] c \in {"f", "F"} -> 15

RECURSIVE HexPrefix(_, _)
HexPrefix(s, acc) ==
    IF s = <<>> \/ Head(s) \notin HexDigits THEN acc
    ELSE HexPrefix(Tail(s), 16 * acc + HexVal(Head(s)))

\* parseInt(string): leading blanks skipped, an optional sign, then the decimal
\* digits up to the first other character (the hexadecimal digits after "0x"
\* or "0X"); NaN when there is no digit.
ParseInt(str) ==
    LET s == SkipSpaces(str)
        neg == s # <<>> /\ Head(s) = "-"
        body == IF s # <<>> /\ Head(s) \in {"-", "+"} THEN Tail(s) ELSE s
        hex == Len(body) >= 2 /\ body[1] = "0" /\ body[2] \in {"x", "X"}
        digits == IF hex THEN SubSeq(body, 3, Len(body)) ELSE body
        abs == IF hex THEN HexPrefix(digits, 0) ELSE DigitPrefix(digits, 0)
    IN  IF digits = <<>> \/ Head(digits) \notin (IF hex THEN HexDigits ELSE Digits)
        THEN NaN
        ELSE Num(IF neg THEN 0 - abs ELSE abs)

(***************************************************************************)
(* Paths and the file system.                                              *)
(***************************************************************************)
DirName == <<"app">>

uploadRoot == DirName \o <<"uploads">>

RESTAURANT_FILE == DirName \o <<"data", "restaurant.json">>

COMMENTS_FILE == DirName \o <<"data", "comments.json">>

\* Segments of an absolute path, "." and empty segments dropped, ".." resolved.
RECURSIVE Normalize(_, _)
Normalize(segs, acc) ==
    IF segs = <<>> THEN acc
    ELSE LET h == Head(segs)
         IN  IF h = "" \/ h = "." THEN Normalize(Tail(segs), acc)
             ELSE IF h = ".."
                  THEN Normalize(Tail(segs),
                                 IF acc = <<>> THEN acc
                                 ELSE SubSeq(acc, 1, Len(acc) - 1))
                  ELSE Normalize(Tail(segs), Append(acc, h))

IsAbsolute(p) == p # <<>> /\ Head(p) = ""

\* path.resolve(from, p) for an absolute `from`.
PathResolve(from, p) ==
    IF IsAbsolute(p) THEN Normalize(p, <<>>) ELSE Normalize(p, from)

\* deleteFileIfExist(filePath) on the set fs of existing files: the path is
\* resolved against __dirname; an existing file is unlinked and the result is
\* true, anything else (no such file, a directory, an error) gives false.
DeleteTarget(filePath) == PathResolve(DirName, filePath)

deleteFileIfExist(fs, filePath) ==
    LET fullPath == DeleteTarget(filePath)
    IN  IF fullPath \in fs
        THEN [fs |-> fs \ {fullPath}, deleted |-> TRUE]
        ELSE [fs |-> fs, deleted |-> FALSE]

\* paths.forEach(p => deleteFileIfExist(p)): the files left.
RECURSIVE DeleteAll(_, _)
DeleteAll(fs, paths) ==
    IF paths = <<>> THEN fs
    ELSE DeleteAll(deleteFileIfExist(fs, Head(paths)).fs, Tail(paths))

\* readJsonFile(filePath): the parsed document, or null when the file is
\* missing. `doc` is the document the file holds when it exists.
readJsonFile(fs, filePath, doc) ==
    IF filePath \in fs THEN [null |-> FALSE, doc |-> doc]
    ELSE [null |-> TRUE, doc |-> <<>>]

\* readJsonFile(COMMENTS_FILE) || []
ReadCommentsOrEmpty(fs, doc) ==
    LET r == readJsonFile(fs, COMMENTS_FILE, doc)
    IN  IF r.null THEN <<>> ELSE r.doc

\* The content of data/comments.json after a step: `doc` while the file exists.
CommentsContent(fs, doc) == IF COMMENTS_FILE \in fs THEN doc ELSE <<>>

(***************************************************************************)
(* Reviews.                                                                *)
(***************************************************************************)
Null == [null |-> TRUE]

IsNull(r) == r = Null

Url(last) == <<"https:", "", "via.placeholder.com", "200", "333333", last>>

\* defaultComments of initDataFiles.
Seed1 ==
    [name |-> "Link LL", userAvatar |-> <<>>, label |-> "bendi xiangdao",
     reviewCount |-> "104 tiao pingjia", photoCount |-> "405 zhang zhaopian",
     rating |-> 4, time |-> <<"4", "zhou", "qian">>,
     content |-> "shiwu pijiu OK",
     reviewImages |-> <<Url("ffffff?text=Food1"), Url("ffffff?text=Food2"),
                        Url("ffffff?text=Food3"), Url("ffffff?text=Beer")>>,
     isUserAdd |-> FALSE, likeCount |-> 0, isLiked |-> FALSE]

Seed2 ==
    [name |-> "Lai Hao Sheng", userAvatar |-> <<>>, label |-> "",
     reviewCount |-> "7 tiao pingjia", photoCount |-> "1 zhang zhaopian",
     rating |-> 5, time |-> <<"3", "nian", "qian">>,
     content |-> "feichang nice shiwu dou hen haochi difang ye hen bucuo",
     reviewImages |-> <<Url("ffffff?text=Shop")>>,
     isUserAdd |-> FALSE, likeCount |-> 0, isLiked |-> FALSE]

defaultComments == <<Seed1, Seed2>>

(***************************************************************************)
(* GET /api/comments: the review sorter.                                   *)
(***************************************************************************)
Includes(str, c) == \E i \in 1..Len(str) : str[i] = c

\* parseInt(timeStr) || 0 + 100: "+" binds tighter than "||", so this is
\* parseInt(timeStr) || 100.
OrElse(n, other) == IF n.nan \/ n.val = 0 THEN other ELSE n.val

\* getTimeScore with the bonus added to the prefix: (parseInt(timeStr) || 0)
\* + 100.
getTimeScoreBonusAdded(timeStr) ==
    IF timeStr = <<>> THEN 0
    ELSE IF Includes(timeStr, "zhou") THEN OrElse(ParseInt(timeStr), 0) + 100
    ELSE IF Includes(timeStr, "yue") THEN OrElse(ParseInt(timeStr), 0) + 50
    ELSE IF Includes(timeStr, "nian") THEN OrElse(ParseInt(timeStr), 0)
    ELSE 0

getTimeScore(timeStr) ==
    IF timeStr = <<>> THEN 0
    ELSE IF Includes(timeStr, "zhou") THEN OrElse(ParseInt(timeStr), 0 + 100)
    ELSE IF Includes(timeStr, "yue") THEN OrElse(ParseInt(timeStr), 0 + 50)
    ELSE IF Includes(timeStr, "nian") THEN OrElse(ParseInt(timeStr), 0)
    ELSE 0

\* The comparators of the three sort keys: negative when a goes before b.
CompareNewest(a, b) == getTimeScore(b.time) - getTimeScore(a.time)

\* CompareRatingDesc with the operands exchanged.
CompareRatingDescSwapped(a, b) == a.rating - b.rating

CompareRatingDesc(a, b) == b.rating - a.rating

CompareRatingAsc(a, b) == a.rating - b.rating

Compare(sortType, a, b) ==
    CASE sortType = "time/newest" -> CompareNewest(a, b)
      [] sortType = "rating/desc" -> CompareRatingDesc(a, b)
      [] sortType = "rating/asc" -> CompareRatingAsc(a, b)

\* Array.prototype.sort(compare) is a stable sort: x is inserted into the sorted
\* list after every element it does not go strictly before.
RECURSIVE InsertSorted(_, _, _)
InsertSorted(sortType, sorted, x) ==
    IF sorted = <<>> THEN <<x>>
    ELSE LET last == sorted[Len(sorted)]
         IN  IF Compare(sortType, x, last) < 0
             THEN Append(InsertSorted(sortType,
                                      SubSeq(sorted, 1, Len(sorted) - 1), x),
                         last)
             ELSE Append(sorted, x)

RECURSIVE StableSort(_, _, _)
StableSort(sortType, list, n) ==
    IF n = 0 THEN <<>>
    ELSE InsertSorted(sortType, StableSort(sortType, list, n - 1), list[n])

SortKeys == {"time/newest", "rating/desc", "rating/asc"}

\* The comparator reads a.time or a.rating: a TypeError when an element is
\* null. It is called once the array has two elements or more.
SortThrows(list, sortType) ==
    /\ sortType \in SortKeys
    /\ Len(list) >= 2
    /\ \E i \in 1..Len(list) : IsNull(list[i])

\* The switch of the handler: the list in the order the response carries.
SortComments(list, sortType) ==
    IF sortType \in SortKeys THEN StableSort(sortType, list, Len(list))
    ELSE list

(***************************************************************************)
(* Requests and responses.                                                 *)
(***************************************************************************)
\* res.json({code, msg, data}): the envelope. `data` is <<>> when the handler
\* sends none.
Envelope(code, data) == [kind |-> "envelope", code |-> code, data |-> data]

\* An error thrown by a handler that has no try/catch (or passed to next(err) by
\* a middleware) reaches Express's default error handler, which answers with
\* HTTP status 500 and an error page: no {code, msg, data} envelope.
Uncaught == [kind |-> "error_page", code |-> 500, data |-> <<>>]

NoResponse == [kind |-> "none", code |-> 0, data |-> <<>>]

\* A JSON value read through a property of the body: undefined (the property is
\* absent), a number, or a string (its characters).
Undefined == [t |-> "undefined", n |-> 0, s |-> <<>>]

JsNumber(n) == [t |-> "number", n |-> n, s |-> <<>>]

JsString(s) == [t |-> "string", n |-> 0, s |-> s]

\* !v is false
Truthy(v) ==
    CASE v.t = "undefined" -> FALSE
      [] v.t = "number" -> v.n # 0
      [] v.t = "string" -> v.s # <<>>

\* parseInt(v): a number is converted to its decimal string first.
ParseIntJs(v) ==
    CASE v.t = "undefined" -> NaN
      [] v.t = "number" -> Num(v.n)
      [] v.t = "string" -> ParseInt(v.s)

\* A value that may be an array: Array.isArray(v) ? v : []
JsArray(items) == [isArray |-> TRUE, items |-> items]

NotArray == [isArray |-> FALSE, items |-> <<>>]

ArrayOrEmpty(v) == IF v.isArray THEN v.items ELSE <<>>

\* s || other, for strings and paths (the empty one is falsy)
StrOr(s, other) == IF s = "" THEN other ELSE s

SeqOr(s, other) == IF s = <<>> THEN other ELSE s

(***************************************************************************)
(* PUT /api/comments                                                       *)
(***************************************************************************)
\* writeJsonFile(filePath, data) creates or overwrites the file; `ok` is false
\* when fs.writeFileSync throws, and the file is then left as it was.
writeJsonFile(fs, filePath, ok) == IF ok THEN fs \cup {filePath} ELSE fs

\* PutOutcome with the array added to the stored list instead of replacing it.
PutOutcomeConcat(fs, doc, body, ok) ==
    IF ~body.isArray
    THEN [files |-> fs, comments |-> doc, res |-> Envelope(400, <<>>)]
    ELSE IF ok
         THEN [files |-> writeJsonFile(fs, COMMENTS_FILE, TRUE),
               comments |-> ReadCommentsOrEmpty(fs, doc) \o body.items,
               res |-> Envelope(200, body.items)]
         ELSE [files |-> fs, comments |-> doc, res |-> Envelope(500, <<>>)]

\* The outcome of the handler: the files, the stored list and the response.
PutOutcome(fs, doc, body, ok) ==
    IF ~body.isArray
    THEN [files |-> fs, comments |-> doc, res |-> Envelope(400, <<>>)]
    ELSE IF ok
         THEN [files |-> writeJsonFile(fs, COMMENTS_FILE, TRUE),
               comments |-> body.items,
               res |-> Envelope(200, body.items)]
         ELSE [files |-> fs, comments |-> doc, res |-> Envelope(500, <<>>)]

(***************************************************************************)
(* POST /api/comments                                                      *)
(***************************************************************************)
JustNow == <<"J", "u", "s", "t", " ", "n", "o", "w">>

\* commentToAdd
CommentToAdd(newComment) ==
    [name |-> StrOr(newComment.name, "Guest"),
     userAvatar |-> SeqOr(newComment.userAvatar, <<>>),
     label |-> StrOr(newComment.label, ""),
     reviewCount |-> StrOr(newComment.reviewCount, "0 reviews"),
     photoCount |-> StrOr(newComment.photoCount, "0 photos"),
     rating |-> OrElse(ParseIntJs(newComment.rating), 5),
     time |-> SeqOr(newComment.time, JustNow),
     content |-> newComment.content,
     reviewImages |-> ArrayOrEmpty(newComment.reviewImages),
     isUserAdd |-> (newComment.isUserAdd \/ TRUE),
     likeCount |-> 0,
     isLiked |-> FALSE]

\* Unshift with push in the place of unshift.
UnshiftAsPush(list, x) == Append(list, x)

\* comments.unshift(commentToAdd)
Unshift(list, x) == <<x>> \o list

\* const comments = readJsonFile(COMMENTS_FILE) || [] of the POST handler
PostReadList(fs, doc) == ReadCommentsOrEmpty(fs, doc)

PostValid(newComment) == newComment.content # "" /\ Truthy(newComment.rating)

PostOutcome(fs, doc, newComment, list, ok) ==
    IF ~PostValid(newComment)
    THEN [files |-> fs, comments |-> doc, res |-> Envelope(400, <<>>)]
    ELSE IF ok
         THEN [files |-> writeJsonFile(fs, COMMENTS_FILE, TRUE),
               comments |-> Unshift(list, CommentToAdd(newComment)),
               res |-> Envelope(200, CommentToAdd(newComment))]
         ELSE [files |-> fs, comments |-> doc, res |-> Envelope(500, <<>>)]

(***************************************************************************)
(* DELETE /api/comments/:index                                             *)
(***************************************************************************)
\* comments.splice(index, 1), index counted from 0
Splice(list, index) ==
    SubSeq(list, 1, index) \o SubSeq(list, index + 2, Len(list))

\* index < 0 || index >= comments.length: both comparisons are false for NaN.
InvalidIndex(index, list) ==
    ~index.nan /\ (index.val < 0 \/ index.val >= Len(list))

\* comments[index] is undefined (index is NaN) or null: reading its
\* reviewImages throws a TypeError.
DeleteThrows(index, list) ==
    ~InvalidIndex(index, list) /\ (index.nan \/ IsNull(list[index.val + 1]))

\* The files left once the review's images and avatar are deleted.
DeleteReviewFiles(fs, commentToDelete) ==
    LET fs1 == DeleteAll(fs, commentToDelete.reviewImages)
    IN  IF commentToDelete.userAvatar # <<>>
        THEN deleteFileIfExist(fs1, commentToDelete.userAvatar).fs
        ELSE fs1

DeleteOutcome(fs, doc, indexParam, ok) ==
    LET index == ParseInt(indexParam)
        list == ReadCommentsOrEmpty(fs, doc)
    IN  IF InvalidIndex(index, list)
        THEN [files |-> fs, comments |-> doc, res |-> Envelope(400, <<>>)]
        ELSE IF DeleteThrows(index, list)
        THEN [files |-> fs, comments |-> doc, res |-> Uncaught]
        ELSE LET fs2 == DeleteReviewFiles(fs, list[index.val + 1])
                 rest == Splice(list, index.val)
             IN  IF ok
                 THEN [files |-> writeJsonFile(fs2, COMMENTS_FILE, TRUE),
                       comments |-> rest,
                       res |-> Envelope(200, rest)]
                 ELSE [files |-> fs2,
                       comments |-> CommentsContent(fs2, doc),
                       res |-> Envelope(500, <<>>)]

(***************************************************************************)
(* GET /api/comments                                                       *)
(***************************************************************************)
GetOutcome(fs, doc, sortType) ==
    LET list == ReadCommentsOrEmpty(fs, doc)
    IN  IF SortThrows(list, sortType) THEN Uncaught
        ELSE Envelope(200, SortComments(list, sortType))

(***************************************************************************)
(* The store profile: GET and POST /api/restaurant.                        *)
(***************************************************************************)
\* A JavaScript number of the profile: a finite decimal (sign, integer part,
\* fraction digits without trailing zeros), Infinity, NaN, or JSON's null.
Finite(neg, ip, fd) == [k |-> "num", neg |-> neg, ip |-> ip, fd |-> fd]

Infinite(neg) == [k |-> "inf", neg |-> neg, ip |-> 0, fd |-> <<>>]

FloatNaN == [k |-> "nan", neg |-> FALSE, ip |-> 0, fd |-> <<>>]

JsonNull == [k |-> "null", neg |-> FALSE, ip |-> 0, fd |-> <<>>]

RECURSIVE TakeDigits(_)
TakeDigits(s) ==
    IF s = <<>> \/ Head(s) \notin Digits THEN <<>>
    ELSE <<Head(s)>> \o TakeDigits(Tail(s))

RECURSIVE StripZeros(_)
StripZeros(ds) ==
    IF ds # <<>> /\ ds[Len(ds)] = "0"
    THEN StripZeros(SubSeq(ds, 1, Len(ds) - 1))
    ELSE ds

InfinityWord == <<"I", "n", "f", "i", "n", "i", "t", "y">>

StartsWith(s, prefix) ==
    Len(s) >= Len(prefix) /\ SubSeq(s, 1, Len(prefix)) = prefix

\* parseFloat(string): blanks skipped, an optional sign, then "Infinity" or the
\* longest decimal literal (digits, optionally "." and digits); NaN when there
\* is none.
ParseFloat(str) ==
    LET s == SkipSpaces(str)
        neg == s # <<>> /\ Head(s) = "-"
        body == IF s # <<>> /\ Head(s) \in {"-", "+"} THEN Tail(s) ELSE s
        ints == TakeDigits(body)
        rest == SubSeq(body, Len(ints) + 1, Len(body))
        frac == IF rest # <<>> /\ Head(rest) = "." THEN TakeDigits(Tail(rest))
                ELSE <<>>
    IN  IF StartsWith(body, InfinityWord) THEN Infinite(neg)
        ELSE IF ints = <<>> /\ frac = <<>> THEN FloatNaN
        ELSE Finite(neg, DigitPrefix(ints, 0), StripZeros(frac))

\* The rating property of a profile payload: absent, a number or a string.
RatingAbsent == [t |-> "undefined", f |-> FloatNaN, s |-> <<>>]

RatingNumber(f) == [t |-> "number", f |-> f, s |-> <<>>]

RatingString(s) == [t |-> "string", f |-> FloatNaN, s |-> s]

\* parseFloat(newConfig.rating)
ParseFloatJs(v) ==
    CASE v.t = "undefined" -> FloatNaN
      [] v.t = "number" -> v.f
      [] v.t = "string" -> ParseFloat(v.s)

\* JSON.stringify writes a number that is not finite as null.
JsonNumber(f) == IF f.k \in {"inf", "nan"} THEN JsonNull ELSE f

StringFields ==
    {"name", "addr", "phone", "realUrl", "type", "status", "intro", "icon"}

ProfileFields == StringFields \cup {"rating", "images"}

PayloadFields == ProfileFields \cup {"deletedImages"}

DefaultRating == Finite(FALSE, 4, <<"6">>)

\* defaultConfig of initDataFiles.
defaultConfig ==
    [name |-> "The Wine Shop",
     rating |-> DefaultRating,
     addr |-> "Bruckenstr. 35, 60364 Frankfurt am Main",
     phone |-> "+089 661 2744",
     realUrl |-> "https://maps.google.com/",
     type |-> "jiuhang",
     status |-> "yi dayang",
     intro |-> "The Wine Shop weiyu Falankefu shi zhongxin ...",
     icon |-> "",
     images |-> <<>>]

\* The value of a property the payload does not have.
Unsupplied(f) ==
    CASE f \in StringFields -> ""
      [] f = "rating" -> RatingAbsent
      [] f \in {"images", "deletedImages"} -> NotArray

\* newConfig.f
Prop(newConfig, f) ==
    IF f \in newConfig.has THEN newConfig.val[f] ELSE Unsupplied(f)

\* The fixed defaults of the handler.
FixedDefault(f) ==
    CASE f = "name" -> "The Wine Shop"
      [] f = "addr" -> "Bruckenstr. 35, 60364 Frankfurt am Main"
      [] f = "phone" -> "+089 661 2744"
      [] f = "realUrl" -> "https://maps.google.com/"
      [] f = "type" -> "Wine Shop"
      [] f = "status" -> "Closed"
      [] f = "intro" -> "No introduction available"
      [] f = "icon" -> ""

\* FinalRating without the isNaN test.
FinalRatingUnchecked(v) == ParseFloatJs(v)

\* isNaN(parseFloat(rating)) ? 4.6 : parseFloat(rating)
FinalRating(v) ==
    IF ParseFloatJs(v).k = "nan" THEN DefaultRating ELSE ParseFloatJs(v)

\* finalConfig: deletedImages is not one of its properties.
FinalConfig(newConfig) ==
    [name |-> StrOr(Prop(newConfig, "name"), FixedDefault("name")),
     rating |-> FinalRating(Prop(newConfig, "rating")),
     addr |-> StrOr(Prop(newConfig, "addr"), FixedDefault("addr")),
     phone |-> StrOr(Prop(newConfig, "phone"), FixedDefault("phone")),
     realUrl |-> StrOr(Prop(newConfig, "realUrl"), FixedDefault("realUrl")),
     type |-> StrOr(Prop(newConfig, "type"), FixedDefault("type")),
     status |-> StrOr(Prop(newConfig, "status"), FixedDefault("status")),
     intro |-> StrOr(Prop(newConfig, "intro"), FixedDefault("intro")),
     icon |-> StrOr(Prop(newConfig, "icon"), FixedDefault("icon")),
     images |-> ArrayOrEmpty(Prop(newConfig, "images"))]

\* The document JSON.parse reads back from what JSON.stringify wrote.
JsonProfile(config) == [config EXCEPT !.rating = JsonNumber(config.rating)]

\* readJsonFile(RESTAURANT_FILE) || {}
EmptyObject == [empty |-> TRUE]

ReadRestaurantOrEmpty(fs, doc) ==
    LET r == readJsonFile(fs, RESTAURANT_FILE, doc)
    IN  IF r.null THEN EmptyObject ELSE r.doc

RestaurantContent(fs, doc) == IF RESTAURANT_FILE \in fs THEN doc ELSE EmptyObject

\* The handler of POST /api/restaurant. The response carries finalConfig as
\* res.json serializes it.
PostRestaurantOutcome(fs, doc, newConfig, ok) ==
    LET fs1 == DeleteAll(fs, ArrayOrEmpty(Prop(newConfig, "deletedImages")))
    IN  IF ok
        THEN [files |-> writeJsonFile(fs1, RESTAURANT_FILE, TRUE),
              restaurant |-> JsonProfile(FinalConfig(newConfig)),
              res |-> Envelope(200, JsonProfile(FinalConfig(newConfig)))]
        ELSE [files |-> fs1,
              restaurant |-> RestaurantContent(fs1, doc),
              res |-> Envelope(500, <<>>)]

GetRestaurantOutcome(fs, doc) == Envelope(200, ReadRestaurantOrEmpty(fs, doc))

(***************************************************************************)
(* DELETE /api/delete/file                                                 *)
(***************************************************************************)
DeleteFileOutcome(fs, filePath) ==
    IF filePath = <<>>
    THEN [files |-> fs, res |-> Envelope(400, <<>>)]
    ELSE LET d == deleteFileIfExist(fs, filePath)
         IN  IF d.deleted
             THEN [files |-> d.fs, res |-> Envelope(200, filePath)]
             ELSE [files |-> d.fs, res |-> Envelope(404, filePath)]

(***************************************************************************)
(* Uploads: the multer instance and the four upload routes.                *)
(***************************************************************************)
\* A file part of a multipart request is [fieldname, stem, ext, big]: the
\* original name is stem followed by ext (ext is "" or starts with "."), and
\* big says that the file is larger than limits.fileSize.
allowedExts == {".jpg", ".jpeg", ".png", ".gif", ".webp"}

ToLowerCase(ext) ==
    CASE ext = ".PNG" -> ".png"
      [] ext = ".JPG" -> ".jpg"
      [] ext = ".BMP" -> ".bmp"
      [] OTHER -> ext

\* path.extname(file.originalname).toLowerCase()
LowerExt(file) == ToLowerCase(file.ext)

\* fileFilter: TRUE when the file is accepted, FALSE when cb gets an Error.
fileFilter(file) == LowerExt(file) \in allowedExts

\* storage.destination: the directory of a field name under uploads/.
DestinationDir(fieldname) ==
    CASE fieldname = "icon" -> "icons"
      [] fieldname = "images" -> "images"
      [] fieldname = "reviewImages" -> "review-images"
      [] fieldname = "userAvatar" -> "avatars"

\* storage.filename: path.basename(originalname, ext) removes ext only when the
\* name ends with it as written; `token` stands for
\* `${Date.now()}-${Math.random().toString(36).substr(2, 8)}`.
uniqueName(file, token) ==
    LET ext == LowerExt(file)
        baseName == IF file.ext = ext THEN file.stem ELSE file.stem \o file.ext
    IN  baseName \o "-" \o token \o ext

\* The routes: [field, dir, single], dir being the directory the handler puts
\* in the path it returns.
Routes ==
    [icon |-> [field |-> "icon", dir |-> "icons", single |-> TRUE],
     images |-> [field |-> "images", dir |-> "images", single |-> FALSE],
     avatar |-> [field |-> "userAvatar", dir |-> "avatars", single |-> TRUE],
     reviewImages |-> [field |-> "reviewImages", dir |-> "review-images",
                       single |-> FALSE]]

RouteNames == {"icon", "images", "avatar", "reviewImages"}

\* multer passes an error to next(err) when a part is under another field
\* than the route's (or is a second file of upload.single), when fileFilter
\* refuses it, or when it is larger than limits.fileSize.
PartRejected(route, parts, i) ==
    \/ parts[i].fieldname # Routes[route].field
    \/ Routes[route].single /\ i > 1
    \/ ~fileFilter(parts[i])
    \/ parts[i].big

UploadRejected(route, parts) ==
    \E i \in 1..Len(parts) : PartRejected(route, parts, i)

\* The absolute path multer's disk storage writes part i to.
StoredPath(parts, tokens, i) ==
    uploadRoot \o <<DestinationDir(parts[i].fieldname),
                    uniqueName(parts[i], tokens[i])>>

\* The web-relative path the handler returns for part i.
ReturnedPath(route, parts, tokens, i) ==
    <<"uploads", Routes[route].dir, uniqueName(parts[i], tokens[i])>>

\* An upload route. On an error multer removes the files the request has
\* stored so far and the route's handler does not run; the handler answers 400
\* when the request has no file.
UploadOutcome(fs, route, parts, tokens) ==
    IF UploadRejected(route, parts)
    THEN [files |-> fs, res |-> Uncaught]
    ELSE IF parts = <<>>
    THEN [files |-> fs, res |-> Envelope(400, <<>>)]
    ELSE [files |-> fs \cup {StoredPath(parts, tokens, i) : i \in 1..Len(parts)},
          res |-> Envelope(200,
                           IF Routes[route].single
                           THEN ReturnedPath(route, parts, tokens, 1)
                           ELSE [i \in 1..Len(parts) |->
                                    ReturnedPath(route, parts, tokens, i)])]

(***************************************************************************)
(* The state after start-up: the directories exist and are empty,          *)
(* initDataFiles has written the two data files, no request was handled.   *)
(***************************************************************************)
Clients == 1..NumClients

SERVER_FILE == DirName \o <<"server.js">>

\* A file outside the server's directory that the process may unlink.
OUTSIDE_FILE == <<"home", "notes.txt">>

Idle ==
    [pc |-> "idle", body |-> <<>>, atReceive |-> <<>>, readList |-> <<>>,
     overlap |-> {}, code |-> 0]

Init ==
    /\ files = {RESTAURANT_FILE, COMMENTS_FILE, SERVER_FILE, OUTSIDE_FILE}
    /\ comments = defaultComments
    /\ restaurant = defaultConfig
    /\ req = [op |-> "listen"]
    /\ res = NoResponse
    /\ putList = <<>>
    /\ putFresh = FALSE
    /\ inflight = [c \in Clients |-> Idle]

\* The files under uploads/.
IsUpload(f) == StartsWith(f, uploadRoot)

Uploaded(fs) == {f \in fs : IsUpload(f)}

(***************************************************************************)
(* The actions: one per route.                                             *)
(***************************************************************************)
GetRestaurant ==
    /\ req' = [op |-> "GET /api/restaurant"]
    /\ res' = GetRestaurantOutcome(files, restaurant)
    /\ UNCHANGED <<files, comments, restaurant, putList, putFresh, inflight>>

PostRestaurant(newConfig, ok) ==
    LET o == PostRestaurantOutcome(files, restaurant, newConfig, ok)
    IN  /\ req' = [op |-> "POST /api/restaurant", body |-> newConfig]
        /\ res' = o.res
        /\ files' = o.files
        /\ restaurant' = o.restaurant
        /\ comments' = CommentsContent(o.files, comments)
        /\ putFresh' = (putFresh /\ COMMENTS_FILE \in o.files)
        /\ UNCHANGED <<putList, inflight>>

GetComments(sortType) ==
    /\ req' = [op |-> "GET /api/comments", sort |-> sortType]
    /\ res' = GetOutcome(files, comments, sortType)
    /\ UNCHANGED <<files, comments, restaurant, putList, putFresh, inflight>>

PutComments(body, ok) ==
    LET o == PutOutcome(files, comments, body, ok)
    IN  /\ req' = [op |-> "PUT /api/comments", body |-> body]
        /\ res' = o.res
        /\ files' = o.files
        /\ comments' = o.comments
        /\ putList' = IF o.res.code = 200 THEN body.items ELSE putList
        /\ putFresh' = IF o.res.code = 200 THEN TRUE ELSE putFresh
        /\ UNCHANGED <<restaurant, inflight>>

\* The list is kept to MaxLen reviews.
PostComments(newComment, ok) ==
    LET list == PostReadList(files, comments)
        o == PostOutcome(files, comments, newComment, list, ok)
    IN  /\ Len(list) < MaxLen
        /\ req' = [op |-> "POST /api/comments", body |-> newComment]
        /\ res' = o.res
        /\ files' = o.files
        /\ comments' = o.comments
        /\ putFresh' = (putFresh /\ o.res.code # 200)
        /\ UNCHANGED <<restaurant, putList, inflight>>

DeleteComment(indexParam, ok) ==
    LET o == DeleteOutcome(files, comments, indexParam, ok)
    IN  /\ req' = [op |-> "DELETE /api/comments/:index", index |-> indexParam]
        /\ res' = o.res
        /\ files' = o.files
        /\ comments' = o.comments
        /\ restaurant' = RestaurantContent(o.files, restaurant)
        /\ putFresh' = (putFresh /\ o.res.code # 200 /\ COMMENTS_FILE \in o.files)
        /\ UNCHANGED <<putList, inflight>>

\* An upload is sent while fewer than MaxUploads files are under uploads/.
Upload(route, parts, tokens) ==
    LET o == UploadOutcome(files, route, parts, tokens)
    IN  /\ Cardinality(Uploaded(files)) < MaxUploads
        /\ req' = [op |-> "POST /api/upload", route |-> route, parts |-> parts]
        /\ res' = o.res
        /\ files' = o.files
        /\ UNCHANGED <<comments, restaurant, putList, putFresh, inflight>>

DeleteFile(filePath) ==
    LET o == DeleteFileOutcome(files, filePath)
    IN  /\ req' = [op |-> "DELETE /api/delete/file", filePath |-> filePath]
        /\ res' = o.res
        /\ files' = o.files
        /\ comments' = CommentsContent(o.files, comments)
        /\ restaurant' = RestaurantContent(o.files, restaurant)
        /\ putFresh' = (putFresh /\ COMMENTS_FILE \in o.files)
        /\ UNCHANGED <<putList, inflight>>

(***************************************************************************)
(* Requests in flight: a POST /api/comments of client c is received (its   *)
(* body is parsed by express.json) and its handler runs later, in one piece.*)
(***************************************************************************)
\* atReceive keeps the list as it was when the request arrived; the handler
\* does not use it: it reads the file when it runs.
Receive(c, newComment) ==
    /\ inflight[c].pc = "idle"
    /\ inflight' = [inflight EXCEPT ![c] =
                       [pc |-> "pending", body |-> newComment,
                        atReceive |-> ReadCommentsOrEmpty(files, comments),
                        readList |-> <<>>, overlap |-> {}, code |-> 0]]
    /\ UNCHANGED <<files, comments, restaurant, req, res, putList, putFresh>>

\* HandlerReadList with the list read when the request arrived, as a handler
\* would that waited between its read and its write.
StaleReadList(c) == inflight[c].atReceive

\* The list the handler of client c's request works on.
HandlerReadList(c) == PostReadList(files, comments)

HandlePost(c, ok) ==
    LET list == HandlerReadList(c)
        o == PostOutcome(files, comments, inflight[c].body, list, ok)
    IN  /\ inflight[c].pc = "pending"
        /\ req' = [op |-> "POST /api/comments", body |-> inflight[c].body]
        /\ res' = o.res
        /\ files' = o.files
        /\ comments' = o.comments
        /\ putFresh' = (putFresh /\ o.res.code # 200)
        /\ inflight' = [inflight EXCEPT ![c] =
                           [@ EXCEPT !.pc = "done", !.readList = list,
                                     !.code = o.res.code,
                                     !.overlap = {d \in Clients \ {c} :
                                                    inflight[d].pc = "pending"}]]
        /\ UNCHANGED <<restaurant, putList>>

(***************************************************************************)
(* The requests the model sends.                                           *)
(***************************************************************************)
SeqsUpTo(S, n) == UNION {[1..k -> S] : k \in 0..n}

\* The token of the k-th generated file name.
Token(k) == "1700000000000-k3x9q2a" \o ToString(k)

\* An avatar upload and the path the route returns for it.
AvatarPart == [fieldname |-> "userAvatar", stem |-> "ann", ext |-> ".png",
               big |-> FALSE]

AvatarPath == <<"uploads", "avatars", uniqueName(AvatarPart, Token(1))>>

\* Reviews a client may PUT. RevB names the review list's own file as avatar.
RevA ==
    [name |-> "Ann", userAvatar |-> AvatarPath, label |-> "Local guide",
     reviewCount |-> "12 reviews", photoCount |-> "3 photos",
     rating |-> 3, time |-> <<"2", "yue", "qian">>,
     content |-> "Good wine",
     reviewImages |-> <<<<"uploads", "review-images", "missing.jpg">>>>,
     isUserAdd |-> TRUE, likeCount |-> 2, isLiked |-> FALSE]

RevB ==
    [name |-> "Bob", userAvatar |-> <<"data", "comments.json">>, label |-> "",
     reviewCount |-> "1 review", photoCount |-> "0 photos",
     rating |-> 1, time |-> <<"shang", "zhou">>,
     content |-> "Too loud",
     reviewImages |-> <<>>,
     isUserAdd |-> TRUE, likeCount |-> 0, isLiked |-> TRUE]

PutSamples == {RevA, RevB, Null}

PutBodies == {NotArray} \cup {JsArray(l) : l \in SeqsUpTo(PutSamples, MaxPut)}

\* Bodies of POST /api/comments; a property that is "" or <<>> may as well be
\* absent, the handler reads both as falsy.
EmptyBody ==
    [name |-> "", userAvatar |-> <<>>, label |-> "", reviewCount |-> "",
     photoCount |-> "", rating |-> Undefined, time |-> <<>>, content |-> "",
     reviewImages |-> NotArray, isUserAdd |-> FALSE]

BodyGreat == [EmptyBody EXCEPT !.content = "Great!", !.rating = JsNumber(5)]

BodyFull ==
    [name |-> "Cleo", userAvatar |-> AvatarPath, label |-> "Regular",
     reviewCount |-> "2 reviews", photoCount |-> "1 photo",
     rating |-> JsString(<<"2", " ", "s", "t", "a", "r", "s">>),
     time |-> <<"1", "zhou", "qian">>, content |-> "Fine",
     reviewImages |-> JsArray(<<<<"uploads", "review-images", "missing.jpg">>>>),
     isUserAdd |-> TRUE]

BodyBadRating ==
    [EmptyBody EXCEPT !.content = "Hm", !.rating = JsString(<<"a", "b", "c">>)]

BodyNoContent == [EmptyBody EXCEPT !.rating = JsNumber(5)]

BodyZeroRating == [EmptyBody EXCEPT !.content = "Zero", !.rating = JsNumber(0)]

PostBodies == {BodyGreat, BodyFull, BodyBadRating, BodyNoContent, BodyZeroRating}

SortInputs == SortKeys \cup {"", "price"}

\* :index of DELETE /api/comments/:index
IndexParams ==
    {<<"0">>, <<"1">>, <<"2">>, <<"7">>, <<"-", "1">>, <<"a", "b", "c">>,
     <<"1", "x">>}

\* filePath of DELETE /api/delete/file and entries of deletedImages
DeletePaths ==
    {<<>>, AvatarPath, <<"uploads", "icons", "missing.png">>,
     <<"data", "comments.json">>, <<"", "home", "notes.txt">>}

\* Arrays a client PUTs before it deletes reviews.
DeletePutBodies ==
    {JsArray(<<RevA, RevB>>), JsArray(<<Null, RevB>>), JsArray(<<RevB, Null, RevA>>)}

\* Profile payloads with the properties in `has`.
Payload(has, val) == [has |-> has, val |-> val]

EmptyPayload == Payload({}, [f \in {} |-> ""])

Supply(p, f, v) ==
    Payload(p.has \cup {f},
            [g \in p.has \cup {f} |-> IF g = f THEN v ELSE p.val[g]])

FieldValues(f) ==
    CASE f \in StringFields \ {"icon"} -> {"", "New " \o f}
      [] f = "icon" -> {"", "uploads/icons/logo-1700000000000-k3x9q2a1.png"}
      [] f = "rating" ->
            {RatingNumber(Finite(FALSE, 0, <<>>)),
             RatingNumber(Finite(FALSE, 3, <<"5">>)),
             RatingString(<<"4", ".", "5", "0">>),
             RatingString(<<"a", "b", "c">>),
             RatingString(InfinityWord)}
      [] f = "images" ->
            {NotArray, JsArray(<<>>),
             JsArray(<<"uploads/images/a-1700000000000-k3x9q2a1.png">>)}
      [] f = "deletedImages" ->
            {NotArray,
             JsArray(<<<<"uploads", "images", "missing.png">>,
                       <<"data", "restaurant.json">>>>),
             JsArray(<<<<"..", "home", "notes.txt">>>>)}

\* One property supplied, with each of its sample values.
SinglePayloads ==
    UNION {{Supply(EmptyPayload, f, v) : v \in FieldValues(f)} :
              f \in PayloadFields}

TruthySample(f) ==
    CASE f \in StringFields \ {"icon"} -> "New " \o f
      [] f = "icon" -> "uploads/icons/logo-1700000000000-k3x9q2a1.png"
      [] f = "rating" -> RatingNumber(Finite(FALSE, 3, <<"5">>))
      [] f = "images" ->
            JsArray(<<"uploads/images/a-1700000000000-k3x9q2a1.png">>)
      [] f = "deletedImages" ->
            JsArray(<<<<"uploads", "images", "missing.png">>,
                      <<"data", "restaurant.json">>>>)

FalsySample(f) ==
    CASE f \in StringFields -> ""
      [] f = "rating" -> RatingString(<<"a", "b", "c">>)
      [] f \in {"images", "deletedImages"} -> NotArray

Sample(f, truthy) == IF truthy THEN TruthySample(f) ELSE FalsySample(f)

RECURSIVE SupplyAll(_, _, _)
SupplyAll(p, fields, truthy) ==
    IF fields = {} THEN p
    ELSE LET f == CHOOSE g \in fields : TRUE
         IN  SupplyAll(Supply(p, f, Sample(f, truthy)), fields \ {f}, truthy)

\* Every property supplied: all with a value, all with a falsy one, and the
\* profile fields only.
FullPayload == SupplyAll(EmptyPayload, PayloadFields, TRUE)

FalsyPayload == SupplyAll(EmptyPayload, PayloadFields, FALSE)

ProfileOnlyPayload == SupplyAll(EmptyPayload, ProfileFields, TRUE)

ProfilePayloads ==
    {EmptyPayload, FullPayload, FalsyPayload, ProfileOnlyPayload}
    \cup SinglePayloads

\* File parts of an upload to `route`: under the route's field or another one,
\* with an allowed extension or not, small or too big.
PartSamples(route) ==
    {[fieldname |-> Routes[route].field, stem |-> n[1], ext |-> n[2],
      big |-> n[3]] :
        n \in {<<"a", ".png", FALSE>>, <<"b", ".bmp", FALSE>>,
               <<"C", ".PNG", FALSE>>, <<"huge", ".jpg", TRUE>>}}
    \cup {[fieldname |-> "file", stem |-> "a", ext |-> ".png", big |-> FALSE]}

\* The k-th file name of a request starting at token t.
Tokens(t, n) == [i \in 1..n |-> Token(((t + i - 2) % MaxParts) + 1)]

\* The web-relative path of a stored file.
WebPath(f) == SubSeq(f, Len(DirName) + 1, Len(f))

\* Time strings of reviews: with each unit or none, with a prefix parseInt
\* reads (zero, negative and hexadecimal ones too) or without.
TimeStrings ==
    {<<>>,
     <<"4", "zhou", "qian">>, <<"0", "zhou", "qian">>, <<"shang", "zhou">>,
     <<"2", "yue", "qian">>, <<"0", "yue", "qian">>, <<"ji", "yue", "qian">>,
     <<"1", "2", "0", "yue", "qian">>,
     <<"3", "nian", "qian">>, <<"qu", "nian">>,
     <<"-", "1", "zhou", "qian">>, <<"0", "x", "1", "0", "zhou", "qian">>,
     <<"7", " ", "d", "a", "y", "s">>}

\* Bodies of POST /api/comments with each time string ("" is then replaced by
\* 'Just now').
TimeBodies == {[BodyGreat EXCEPT !.time = t] : t \in TimeStrings}

\* Arrays a client PUTs to start the list again: none, or one review without a
\* time.
TimePutBodies == {JsArray(<<>>), JsArray(<<[RevA EXCEPT !.time = <<>>]>>)}

(***************************************************************************)
(* Specifications.                                                         *)
(***************************************************************************)
\* The review list: replace, append, list.
NextList ==
    \/ \E body \in PutBodies, ok \in BOOLEAN : PutComments(body, ok)
    \/ \E newComment \in PostBodies, ok \in BOOLEAN : PostComments(newComment, ok)
    \/ \E sortType \in SortInputs : GetComments(sortType)

SpecList == Init /\ [][NextList]_vars

\* The profile.
NextProfile ==
    \/ \E newConfig \in ProfilePayloads, ok \in BOOLEAN :
          PostRestaurant(newConfig, ok)
    \/ GetRestaurant

SpecProfile == Init /\ [][NextProfile]_vars

\* Removal of reviews and files.
NextDelete ==
    \/ Upload("avatar", <<AvatarPart>>, Tokens(1, 1))
    \/ \E body \in DeletePutBodies : PutComments(body, TRUE)
    \/ \E indexParam \in IndexParams, ok \in BOOLEAN :
          DeleteComment(indexParam, ok)
    \/ \E sortType \in {"", "rating/desc"} : GetComments(sortType)
    \/ \E filePath \in DeletePaths : DeleteFile(filePath)
    \/ \E v \in FieldValues("deletedImages") :
          PostRestaurant(Supply(EmptyPayload, "deletedImages", v), TRUE)

SpecDelete == Init /\ [][NextDelete]_vars

\* Uploads.
NextUpload ==
    \/ \E route \in RouteNames :
          \E parts \in SeqsUpTo(PartSamples(route), MaxParts), t \in 1..MaxParts :
             Upload(route, parts, Tokens(t, Len(parts)))
    \/ \E f \in Uploaded(files) : DeleteFile(WebPath(f))

SpecUpload == Init /\ [][NextUpload]_vars

\* Concurrent POST /api/comments requests, one per client.
NextRace ==
    \/ \E c \in Clients, newComment \in PostBodies : Receive(c, newComment)
    \/ \E c \in Clients, ok \in BOOLEAN : HandlePost(c, ok)

SpecRace == Init /\ [][NextRace]_vars

\* Reviews with every kind of time string, listed newest first.
NextTime ==
    \/ \E body \in TimePutBodies : PutComments(body, TRUE)
    \/ \E newComment \in TimeBodies : PostComments(newComment, TRUE)
    \/ \E sortType \in {"time/newest", ""} : GetComments(sortType)

SpecTime == Init /\ [][NextTime]_vars

\* Every route.
Next ==
    \/ NextList
    \/ NextTime
    \/ NextProfile
    \/ NextDelete
    \/ NextUpload
    \/ NextRace

Spec == Init /\ [][Next]_vars

(***************************************************************************)
(* Properties.                                                             *)
(***************************************************************************)
Stored == ReadCommentsOrEmpty(files, comments)

Reverse(list) == [i \in 1..Len(list) |-> list[Len(list) + 1 - i]]

Count(list, x) == Cardinality({i \in 1..Len(list) : list[i] = x})

IsPermutation(a, b) ==
    /\ Len(a) = Len(b)
    /\ \A i \in 1..Len(a) : Count(a, a[i]) = Count(b, a[i])

\* C1: after a PUT /api/comments answered 200 and until the next write to the
\* review list, the stored list is the submitted array, and every GET
\* /api/comments with an empty or unrecognized sort key returns exactly that
\* array in the submitted order, sorted reads in between included.
C1_PutGetRoundTrip ==
    putFresh =>
        /\ Stored = putList
        /\ (req.op = "GET /api/comments" /\ req.sort \notin SortKeys)
              => res = Envelope(200, putList)

\* C1 witness: an unsorted GET answers with a PUT array of two reviews whose
\* order is not the one a sort by rating would give.
C1_Witness ==
    /\ putFresh
    /\ req.op = "GET /api/comments"
    /\ req.sort = ""
    /\ putList = <<RevA, RevB>>
    /\ res.data = <<RevA, RevB>>
    /\ SortComments(putList, "rating/asc") # putList

\* C2: a POST /api/comments answered 200 leaves the stored list equal to the
\* new review followed by the former list: the new review is at index 0, the
\* length grows by one, the review formerly at k is at k + 1, and a GET with no
\* sort returns this list.
C2_PostPrepends ==
    [][(req'.op = "POST /api/comments" /\ res'.code = 200) =>
          /\ Len(comments') = Len(Stored) + 1
          /\ comments'[1] = res'.data
          /\ comments'[1].content = req'.body.content
          /\ \A k \in 1..Len(Stored) : comments'[k + 1] = Stored[k]
          /\ GetOutcome(files', comments', "") = Envelope(200, comments')]_vars

\* C2 witness: from the seed state, POST {content: "Great!", rating: 5} gives
\* three reviews, the new one (name "Guest", likeCount 0) first.
C2_Witness ==
    /\ req.op = "POST /api/comments"
    /\ req.body = BodyGreat
    /\ res.code = 200
    /\ Len(comments) = 3
    /\ comments[1].name = "Guest" /\ comments[1].likeCount = 0
    /\ comments[1].content = "Great!" /\ comments[1].rating = 5
    /\ comments[2] = Seed1 /\ comments[3] = Seed2

NoNull(list) == \A i \in 1..Len(list) : ~IsNull(list[i])

NoRatingTies(list) ==
    /\ NoNull(list)
    /\ \A i, j \in 1..Len(list) : i # j => list[i].rating # list[j].rating

\* C9: when no two stored reviews have the same rating, the list returned for
\* sort=rating/desc is the reverse of the one returned for sort=rating/asc on
\* the same stored data, and both are permutations of the stored list.
C9_DescIsReverseOfAsc ==
    (/\ req.op = "GET /api/comments"
     /\ req.sort \in {"rating/desc", "rating/asc"}
     /\ NoRatingTies(Stored))
    => LET other == IF req.sort = "rating/desc" THEN "rating/asc"
                    ELSE "rating/desc"
       IN  /\ res.kind = "envelope" /\ res.code = 200
           /\ res.data = Reverse(GetOutcome(files, comments, other).data)
           /\ IsPermutation(res.data, Stored)
           /\ IsPermutation(GetOutcome(files, comments, other).data, Stored)

\* C9 witness: three reviews with different ratings, stored in an order that
\* is neither ascending nor descending, listed with sort=rating/desc.
C9_Witness ==
    /\ req.op = "GET /api/comments"
    /\ req.sort = "rating/desc"
    /\ Len(Stored) = 3
    /\ NoRatingTies(Stored)
    /\ res.data # Stored
    /\ res.data # Reverse(Stored)

\* The review DELETE /api/comments/:index is asked to remove, and the paths
\* it names.
ReviewPaths(r) ==
    {r.reviewImages[k] : k \in 1..Len(r.reviewImages)}
    \cup (IF r.userAvatar # <<>> THEN {r.userAvatar} ELSE {})

\* C3: a DELETE /api/comments/i answered 200 removes exactly the record at
\* position i, the others keeping their order, and afterwards no file named by
\* the removed review's reviewImages entries or userAvatar exists on disk.
C3_DeleteRemovesRecordAndFiles ==
    [][(req'.op = "DELETE /api/comments/:index" /\ res'.code = 200) =>
          LET i == ParseInt(req'.index).val
          IN  /\ comments' = Splice(Stored, i)
              /\ Len(comments') = Len(Stored) - 1
              /\ \A p \in ReviewPaths(Stored[i + 1]) :
                    DeleteTarget(p) \notin files']_vars

\* C5: DELETE /api/comments/:index with an index that is not a position of the
\* stored list (negative, too large, or not an integer) is answered with a 400
\* envelope, and neither the stored list nor any file changes.
C5_InvalidIndexRejected ==
    [][(/\ req'.op = "DELETE /api/comments/:index"
        /\ \/ ParseInt(req'.index).nan
           \/ ParseInt(req'.index).val < 0
           \/ ParseInt(req'.index).val >= Len(Stored))
       => (res' = Envelope(400, <<>>) /\ files' = files /\ comments' = comments)
      ]_vars

\* C6: every request is answered with a {code, msg, data} envelope whose code
\* is 200, 400, 404 or 500; an error thrown in a handler becomes a 500
\* envelope.
C6_AlwaysEnvelope ==
    req.op # "listen" =>
        (res.kind = "envelope" /\ res.code \in {200, 400, 404, 500})

\* C7: requests remove only files under uploads/ (data/comments.json and
\* data/restaurant.json stay), and DELETE /api/delete/file with a path that
\* names no existing file answers 404 and removes nothing.
C7_OnlyUploadsRemoved ==
    [][/\ \A f \in files \ files' : IsUpload(f)
       /\ {COMMENTS_FILE, RESTAURANT_FILE} \subseteq files'
       /\ (/\ req'.op = "DELETE /api/delete/file"
           /\ req'.filePath # <<>>
           /\ DeleteTarget(req'.filePath) \notin files)
          => (res'.code = 404 /\ files' = files)]_vars

\* C8: an upload with a file whose extension is not .jpg, .jpeg, .png, .gif or
\* .webp is answered with a 400 envelope and writes no file.
C8_BadExtensionRejected ==
    [][(/\ req'.op = "POST /api/upload"
        /\ \E i \in 1..Len(req'.parts) :
              LowerExt(req'.parts[i]) \notin allowedExts)
       => (res'.kind = "envelope" /\ res'.code = 400 /\ files' = files)]_vars

\* A POST /api/restaurant answered 200 and the GET /api/restaurant after it.
PostThenGetProfile ==
    /\ req.op = "POST /api/restaurant"
    /\ res.code = 200
    /\ req'.op = "GET /api/restaurant"

\* The default of a string field, as the claim's "fixed default".
ExpectedDefault(f) ==
    CASE f = "name" -> "The Wine Shop"
      [] f = "addr" -> "Bruckenstr. 35, 60364 Frankfurt am Main"
      [] f = "phone" -> "+089 661 2744"
      [] f = "realUrl" -> "https://maps.google.com/"
      [] f = "type" -> "Wine Shop"
      [] f = "status" -> "Closed"
      [] f = "intro" -> "No introduction available"
      [] f = "icon" -> ""

FourPointSix == Finite(FALSE, 4, <<"6">>)

\* C4 as stated: after POST /api/restaurant with payload P, the next GET
\* returns a profile in which every field P supplies has exactly the supplied
\* value and every field P omits has its fixed default, and no deletedImages.
C4_SuppliedFieldsKept ==
    [][PostThenGetProfile =>
          LET P == req.body
              got == res'.data
          IN  /\ DOMAIN got = ProfileFields
              /\ \A f \in StringFields :
                    got[f] = IF f \in P.has THEN P.val[f] ELSE ExpectedDefault(f)
              /\ IF "rating" \in P.has
                 THEN P.val["rating"].t = "number" /\ got.rating = P.val["rating"].f
                 ELSE got.rating = FourPointSix
              /\ IF "images" \in P.has
                 THEN P.val["images"].isArray /\ got.images = P.val["images"].items
                 ELSE got.images = <<>>]_vars

\* C4 amended: after a POST /api/restaurant answered 200, the next GET returns
\* a profile in which a string field supplied non-empty has the supplied
\* value, a rating that parseFloat reads as a number has that number (null
\* when it is infinite), images supplied as an array is that array, and every
\* field that is omitted, empty, unparsable or no array has its fixed default;
\* the profile has no deletedImages field.
C4_TruthyFieldsKept ==
    [][PostThenGetProfile =>
          LET P == req.body
              got == res'.data
              parsed == IF "rating" \in P.has THEN ParseFloatJs(P.val["rating"])
                        ELSE FloatNaN
          IN  /\ DOMAIN got = ProfileFields
              /\ got = restaurant'
              /\ \A f \in StringFields :
                    got[f] = IF f \in P.has /\ P.val[f] # "" THEN P.val[f]
                             ELSE ExpectedDefault(f)
              /\ got.rating = CASE parsed.k = "nan" -> FourPointSix
                                [] parsed.k = "inf" -> JsonNull
                                [] OTHER -> parsed
              /\ got.images = IF "images" \in P.has /\ P.val["images"].isArray
                              THEN P.val["images"].items
                              ELSE <<>>]_vars

\* C4 witness: a GET returns the profile of a POST that supplied a name and
\* omitted the other fields, which have their defaults.
C4_Witness ==
    /\ req.op = "GET /api/restaurant"
    /\ res.data = restaurant
    /\ DOMAIN restaurant = ProfileFields
    /\ restaurant.name = "New name"
    /\ restaurant.type = "Wine Shop"
    /\ restaurant.intro = "No introduction available"
    /\ restaurant.rating = FourPointSix
    /\ restaurant.images = <<>>

Done200(c) == inflight[c].pc = "done" /\ inflight[c].code = 200

\* Two requests were in flight together: one was pending when the handler of
\* the other ran.
Simultaneous(c, d) == d \in inflight[c].overlap \/ c \in inflight[d].overlap

\* C10 as stated, for two simultaneous POST /api/comments both answered 200:
\* both handlers read the same list and the stored list holds only one of the
\* two new reviews.
C10_LostUpdate ==
    \A c, d \in Clients :
        (c # d /\ Done200(c) /\ Done200(d) /\ Simultaneous(c, d)) =>
            /\ inflight[c].readList = inflight[d].readList
            /\ Len(Stored) = Len(inflight[c].readList) + 1

\* C10 amended: the handlers of simultaneous POST /api/comments requests run
\* one after the other, each reading the list the one before wrote: two
\* requests answered 200 never read the same list, and the stored list holds
\* the new review of every request answered 200.
C10_NoLostUpdate ==
    /\ \A c, d \in Clients :
          (c # d /\ Done200(c) /\ Done200(d)) =>
              inflight[c].readList # inflight[d].readList
    /\ Len(Stored) =
          Len(defaultComments) + Cardinality({c \in Clients : Done200(c)})
    /\ \A c \in Clients :
          Done200(c) =>
              Count(Stored, CommentToAdd(inflight[c].body)) =
                 Cardinality({d \in Clients :
                     Done200(d) /\ CommentToAdd(inflight[d].body) =
                                     CommentToAdd(inflight[c].body)})

\* C10 witness: two requests that were in flight together are both answered
\* 200 and the stored list has both new reviews before the two seed reviews.
C10_Witness ==
    /\ \E c, d \in Clients :
          /\ c # d /\ Done200(c) /\ Done200(d) /\ Simultaneous(c, d)
          /\ inflight[c].body = BodyGreat /\ inflight[d].body = BodyFull
    /\ Len(Stored) = 4
    /\ Stored[3] = Seed1 /\ Stored[4] = Seed2

\* The score of a time string as the claim words it: 0 without a unit, the
\* prefix whenever parseInt reads one, the unit's bonus otherwise.
UnitBonus(timeStr) ==
    IF Includes(timeStr, "zhou") THEN 100
    ELSE IF Includes(timeStr, "yue") THEN 50
    ELSE 0

HasUnit(timeStr) == \E u \in {"zhou", "yue", "nian"} : Includes(timeStr, u)

StatedScore(timeStr) ==
    IF timeStr = <<>> \/ ~HasUnit(timeStr) THEN 0
    ELSE IF ~ParseInt(timeStr).nan THEN ParseInt(timeStr).val
    ELSE UnitBonus(timeStr)

\* The same with a prefix that is 0 counted with the prefixes that fail to
\* parse.
NonZeroPrefixScore(timeStr) ==
    IF timeStr = <<>> \/ ~HasUnit(timeStr) THEN 0
    ELSE IF ~ParseInt(timeStr).nan /\ ParseInt(timeStr).val # 0
         THEN ParseInt(timeStr).val
    ELSE UnitBonus(timeStr)

\* list is in non-increasing order of score(time).
NonIncreasing(list, score(_)) ==
    \A i \in 1..(Len(list) - 1) : score(list[i].time) >= score(list[i + 1].time)

\* The list a GET /api/comments?sort=time/newest has just returned.
NewestListed ==
    /\ req.op = "GET /api/comments"
    /\ req.sort = "time/newest"
    /\ NoNull(Stored)

\* C11 as stated: the recency score of a time string is 0 when it is empty or
\* has no recognized unit, otherwise its numeric prefix whenever the prefix
\* parses, the weeks bonus 100 or months bonus 50 only when it fails to parse;
\* GET /api/comments?sort=time/newest returns the reviews in non-increasing
\* order of this score.
C11_ScoreIsPrefixWhenParsed ==
    NewestListed =>
        /\ res.kind = "envelope" /\ res.code = 200
        /\ IsPermutation(res.data, Stored)
        /\ \A i \in 1..Len(Stored) :
              getTimeScore(Stored[i].time) = StatedScore(Stored[i].time)
        /\ NonIncreasing(res.data, StatedScore)

\* C11 amended: the score is 0 when the string is empty or has no recognized
\* unit, otherwise the integer parseInt reads at its start when there is one
\* and it is not 0, and the unit's bonus (weeks 100, else months 50, else
\* years 0) when parseInt reads none or reads 0; GET
\* /api/comments?sort=time/newest returns the stored reviews, all of them, in
\* non-increasing order of this score.
C11_ScoreIsNonZeroPrefixOrBonus ==
    NewestListed =>
        /\ res.kind = "envelope" /\ res.code = 200
        /\ IsPermutation(res.data, Stored)
        /\ \A i \in 1..Len(Stored) :
              getTimeScore(Stored[i].time) = NonZeroPrefixScore(Stored[i].time)
        /\ NonIncreasing(res.data, NonZeroPrefixScore)

\* C11 witness: three stored reviews, "3 years ago", "0 weeks ago" and
\* "4 weeks ago" in this order, are listed newest first as "0 weeks" (score
\* 100), "4 weeks" (4), "3 years" (3).
C11_Witness ==
    /\ NewestListed
    /\ Len(Stored) = 3
    /\ Stored[1].time = <<"3", "nian", "qian">>
    /\ Stored[2].time = <<"0", "zhou", "qian">>
    /\ Stored[3].time = <<"4", "zhou", "qian">>
    /\ res.data = <<Stored[2], Stored[3], Stored[1]>>

====
